---- MODULE Spec2Model ----
(***************************************************************************)
(* Model of src/main.py: the sales-research pipeline.                      *)
(*                                                                         *)
(* main.py builds a tree of stages (build_agents), attaches the lifecycle  *)
(* hooks on_agent_start / on_agent_end / on_tool_start to them, and drives *)
(* the tree from main() inside try/finally, closing the optional Exa       *)
(* toolset in the finally block.  The tree, the hooks, the instruction     *)
(* templates and main() are translated from main.py.  What a Sequential    *)
(* Group, a Parallel Group and a Leaf Task do when they run is not in      *)
(* main.py (it only constructs them): those steps follow spec.md 4.2 and   *)
(* are marked as such where they are defined.                              *)
(***************************************************************************)
EXTENDS Naturals, Sequences, FiniteSets, TLC

\* ------------------------------------------------------------ constants

\* callback_context.invocation_id: one run_async call is one invocation, so
\* every stage of the run sees the same id.
InvocationId == "inv"

None == "None"

\* ------------------------------------------------------ the stage tree

Research ==
    {"NewsResearcher", "CompetitorResearcher", "MetricsResearcher",
     "TechStackResearcher", "LeadResearcher"}

Leaves == Research \cup {"PositioningStrategist", "OutreachWriter"}

Groups == {"ParallelResearchTeam", "LeadResearchSystem"}

Stages == Leaves \cup Groups

Root == "LeadResearchSystem"

\* Variant of AgentKind: the root built as a ParallelAgent.
AgentKind_RootParallel(s) ==
    CASE s \in Groups -> "ParallelAgent"
      [] OTHER -> "LlmAgent"

\* The class each agent is constructed with.
AgentKind(s) ==
    CASE s = "ParallelResearchTeam" -> "ParallelAgent"
      [] s = "LeadResearchSystem" -> "SequentialAgent"
      [] OTHER -> "LlmAgent"

\* Variant of sub_agents: the root lists OutreachWriter before
\* PositioningStrategist.
sub_agents_Swapped(s) ==
    CASE s = "ParallelResearchTeam" ->
             <<"NewsResearcher", "CompetitorResearcher", "MetricsResearcher",
               "TechStackResearcher", "LeadResearcher">>
      [] s = "LeadResearchSystem" ->
             <<"ParallelResearchTeam", "OutreachWriter", "PositioningStrategist">>
      [] OTHER -> <<>>

\* sub_agents= of each composite, in declaration order.
sub_agents(s) ==
    CASE s = "ParallelResearchTeam" ->
             <<"NewsResearcher", "CompetitorResearcher", "MetricsResearcher",
               "TechStackResearcher", "LeadResearcher">>
      [] s = "LeadResearchSystem" ->
             <<"ParallelResearchTeam", "PositioningStrategist", "OutreachWriter">>
      [] OTHER -> <<>>

\* Variant of output_key: CompetitorResearcher copied NewsResearcher's key.
output_key_Copied(s) ==
    CASE s = "NewsResearcher" -> "news_data"
      [] s = "CompetitorResearcher" -> "news_data"
      [] s = "MetricsResearcher" -> "metrics_data"
      [] s = "TechStackResearcher" -> "techstack_data"
      [] s = "LeadResearcher" -> "lead_data"
      [] s = "PositioningStrategist" -> "positioning_strategy"
      [] OTHER -> None

\* output_key= of each LlmAgent; OutreachWriter declares none.
output_key(s) ==
    CASE s = "NewsResearcher" -> "news_data"
      [] s = "CompetitorResearcher" -> "competitor_data"
      [] s = "MetricsResearcher" -> "metrics_data"
      [] s = "TechStackResearcher" -> "techstack_data"
      [] s = "LeadResearcher" -> "lead_data"
      [] s = "PositioningStrategist" -> "positioning_strategy"
      [] OTHER -> None

OutputKeys == {output_key(l) : l \in Leaves} \ {None}

\* The {key} placeholders of each instruction template.
InstructionKeys(s) ==
    CASE s = "PositioningStrategist" ->
             {"news_data", "competitor_data", "metrics_data", "techstack_data",
              "lead_data"}
      [] s = "OutreachWriter" -> {"lead_data", "positioning_strategy"}
      [] OTHER -> {}

\* Variant of HasToolCallback: NewsResearcher built without
\* before_tool_callback.
HasToolCallback_Missing(s) ==
    s \in Leaves \ {"OutreachWriter", "NewsResearcher"}

\* before_tool_callback= is passed to every LlmAgent but OutreachWriter,
\* which is also the only one built without tools.
HasToolCallback(s) == s \in Leaves \ {"OutreachWriter"}

\* Variant of LeadTools: tools=[exa_toolset] without the fallback.
LeadTools_NoFallback(exa_toolset) == {exa_toolset}

\* tools= of LeadResearcher: [exa_toolset] if exa_toolset else [google_search].
LeadTools(exa_toolset) ==
    IF exa_toolset # None THEN {exa_toolset} ELSE {"google_search"}

\* tools= of each LlmAgent.
AgentTools(s, exa_toolset) ==
    CASE s \in Research \ {"LeadResearcher"} -> {"google_search"}
      [] s = "LeadResearcher" -> LeadTools(exa_toolset)
      [] s = "PositioningStrategist" -> {"load_web_page"}
      [] OTHER -> {}

Parent(s) ==
    IF \E g \in Groups : \E i \in 1..Len(sub_agents(g)) : sub_agents(g)[i] = s
    THEN CHOOSE g \in Groups : \E i \in 1..Len(sub_agents(g)) : sub_agents(g)[i] = s
    ELSE None

Children(g) == {sub_agents(g)[i] : i \in 1..Len(sub_agents(g))}

IndexOf(g, s) == CHOOSE i \in 1..Len(sub_agents(g)) : sub_agents(g)[i] = s

\* ------------------------------------------------------------- state

VARIABLES
    env,            \* os.environ: which of the three variables are set
    pc,             \* where main() / __main__ stands
    outcome,        \* how main() is leaving: "none", "return", "error", "interrupt"
    session,        \* InMemorySessionService.create_session has run
    exa_toolset,    \* main's local exa_toolset: None or "MCPToolset"
    root_agent,     \* main's local root_agent: None or the root's name
    lead_tools,     \* tools= LeadResearcher was built with
    st,             \* per stage: "idle", "running", "completed", "failed", "cancelled"
    state,          \* the session state (blackboard): a dict key -> value
    agent_starts,   \* per stage: calls of on_agent_start
    agent_ends,     \* per stage: calls of on_agent_end
    instruction,    \* per leaf: the values rendered into its template (a dict)
    dispatched,     \* leaves whose external call has been dispatched
    surfaced,       \* per stage: what on_agent_end printed as INTERMEDIATE OUTPUT
    hook_error,     \* the stage whose hook raised, None while none did
    tool_calls,     \* the <<tool, leaf>> invocations made inside leaves
    tool_log,       \* the <<tool, leaf>> pairs on_tool_start logged
    close_calls,    \* calls of exa_toolset.close()
    log,            \* logger warnings emitted
    artifact,       \* contents of sales_outreach.md, None while not written
    stdout          \* what main() and __main__ printed, in order

vars ==
    <<env, pc, outcome, session, exa_toolset, root_agent, lead_tools, st, state,
      agent_starts, agent_ends, instruction, dispatched, surfaced, hook_error,
      tool_calls, tool_log, close_calls, log, artifact, stdout>>

mainVars == <<session, exa_toolset, root_agent, lead_tools>>
treeVars ==
    <<st, state, agent_starts, agent_ends, instruction, dispatched, surfaced,
      hook_error, tool_calls, tool_log>>

\* ---------------------------------------------------------- dictionaries

EmptyDict == [k \in {} |-> None]

\* d[k] = v
Put(d, k, v) == [x \in DOMAIN d \cup {k} |-> IF x = k THEN v ELSE d[x]]

\* d.get(k)
Get(d, k) == IF k \in DOMAIN d THEN d[k] ELSE None

\* ----------------------------------------------------------------- hooks

\* time.time(): an opaque, truthy timestamp.
Time == "time"

\* Variant of start_time_key: the agent's name left out of the key.
start_time_key_NoName(invocation_id, agent_name) ==
    "metrics:start_time:" \o invocation_id

\* f"metrics:start_time:{invocation_id}:{agent_name}"
start_time_key(invocation_id, agent_name) ==
    "metrics:start_time:" \o invocation_id \o ":" \o agent_name

\* on_agent_start: the session state after the hook.
on_agent_start(cs, agent_name) ==
    Put(cs, start_time_key(InvocationId, agent_name), Time)

\* Variant of output_map: two entries of the table swapped.
output_map_Swapped ==
    ("NewsResearcher" :> "competitor_data") @@
    ("CompetitorResearcher" :> "news_data") @@
    ("MetricsResearcher" :> "metrics_data") @@
    ("TechStackResearcher" :> "techstack_data") @@
    ("LeadResearcher" :> "lead_data") @@
    ("PositioningStrategist" :> "positioning_strategy")

\* on_agent_end's name -> key table.
output_map ==
    ("NewsResearcher" :> "news_data") @@
    ("CompetitorResearcher" :> "competitor_data") @@
    ("MetricsResearcher" :> "metrics_data") @@
    ("TechStackResearcher" :> "techstack_data") @@
    ("LeadResearcher" :> "lead_data") @@
    ("PositioningStrategist" :> "positioning_strategy")

\* Variant of on_agent_end: the lookup of the output stores a default under
\* the key when it is missing (setdefault instead of get).
on_agent_end_SetDefault(cs, agent_name) ==
    [state |-> IF agent_name \in DOMAIN output_map
                  /\ output_map[agent_name] \notin DOMAIN cs
               THEN Put(cs, output_map[agent_name], "")
               ELSE cs,
     duration |-> Get(cs, start_time_key(InvocationId, agent_name)) # None,
     printed |-> IF agent_name \in DOMAIN output_map
                 THEN Get(cs, output_map[agent_name])
                 ELSE None]

\* Variant of on_agent_end: the start time is taken out of the state (pop
\* instead of get).
on_agent_end_Pop(cs, agent_name) ==
    [state |-> [k \in DOMAIN cs \ {start_time_key(InvocationId, agent_name)}
                  |-> cs[k]],
     duration |-> Get(cs, start_time_key(InvocationId, agent_name)) # None,
     printed |-> IF agent_name \in DOMAIN output_map
                 THEN Get(cs, output_map[agent_name])
                 ELSE None]

\* on_agent_end: the session state after the hook (it only reads), whether a
\* duration was logged, and the value printed as intermediate output.
on_agent_end(cs, agent_name) ==
    [state |-> cs,
     duration |-> Get(cs, start_time_key(InvocationId, agent_name)) # None,
     printed |-> IF agent_name \in DOMAIN output_map
                 THEN Get(cs, output_map[agent_name])
                 ELSE None]

\* on_tool_start: the TOOL CALL lines logged so far, with this one.
on_tool_start(logged, tool, agent_name) == logged \cup {<<tool, agent_name>>}

\* ------------------------------------------------------------------ main

\* create_exa_toolset: None without EXA_API_KEY, else the MCP toolset.
create_exa_toolset(environ) ==
    IF ~environ.EXA_API_KEY THEN None ELSE "MCPToolset"

\* build_agents: the root it returns and the tools LeadResearcher got.  It
\* performs no check of the tree and has no failing path of its own.
build_agents(toolset) ==
    [root |-> Root, lead_tools |-> AgentTools("LeadResearcher", toolset)]

Init ==
    /\ env \in [GOOGLE_API_KEY : BOOLEAN,
                GOOGLE_GENAI_USE_VERTEXAI : BOOLEAN,
                EXA_API_KEY : BOOLEAN]
    /\ pc = "check"
    /\ outcome = "none"
    /\ session = FALSE
    /\ exa_toolset = None
    /\ root_agent = None
    /\ lead_tools = {}
    /\ st = [s \in Stages |-> "idle"]
    /\ state = EmptyDict
    /\ agent_starts = [s \in Stages |-> 0]
    /\ agent_ends = [s \in Stages |-> 0]
    /\ instruction = [l \in Leaves |-> EmptyDict]
    /\ dispatched = {}
    /\ surfaced = [s \in Stages |-> None]
    /\ hook_error = None
    /\ tool_calls = {}
    /\ tool_log = {}
    /\ close_calls = 0
    /\ log = {}
    /\ artifact = None
    /\ stdout = <<>>

\* Variant of CheckCredentials: the error is printed but the return is missing.
CheckCredentials_NoReturn ==
    /\ pc = "check"
    /\ stdout' = IF ~env.GOOGLE_API_KEY /\ ~env.GOOGLE_GENAI_USE_VERTEXAI
                 THEN Append(stdout, "Error: GOOGLE_API_KEY not found.")
                 ELSE stdout
    /\ pc' = "create_session"
    /\ UNCHANGED <<env, outcome, mainVars, treeVars, close_calls, log, artifact>>

\* main, the credentials check: without GOOGLE_API_KEY and without
\* GOOGLE_GENAI_USE_VERTEXAI it prints the error and returns.
CheckCredentials ==
    /\ pc = "check"
    /\ IF ~env.GOOGLE_API_KEY /\ ~env.GOOGLE_GENAI_USE_VERTEXAI
       THEN /\ stdout' = Append(stdout, "Error: GOOGLE_API_KEY not found.")
            /\ outcome' = "return"
            /\ pc' = "unwind"
       ELSE /\ pc' = "create_session"
            /\ UNCHANGED <<stdout, outcome>>
    /\ UNCHANGED <<env, mainVars, treeVars, close_calls, log, artifact>>

\* main: session_service.create_session(...).
CreateSession ==
    /\ pc = "create_session"
    /\ session' = TRUE
    /\ pc' = "create_tools"
    /\ UNCHANGED <<env, outcome, exa_toolset, root_agent, lead_tools, treeVars,
                   close_calls, log, artifact, stdout>>

\* main: exa_toolset = create_exa_toolset().
CreateTools ==
    /\ pc = "create_tools"
    /\ exa_toolset' = create_exa_toolset(env)
    /\ log' = IF create_exa_toolset(env) = None
              THEN log \cup {"EXA_API_KEY not set"} ELSE log
    /\ pc' = "build"
    /\ UNCHANGED <<env, outcome, session, root_agent, lead_tools, treeVars,
                   close_calls, artifact, stdout>>

\* main: root_agent = build_agents(exa_toolset), the Runner and the banner.
BuildAgents ==
    /\ pc = "build"
    /\ root_agent' = build_agents(exa_toolset).root
    /\ lead_tools' = build_agents(exa_toolset).lead_tools
    /\ stdout' = stdout \o <<"Starting Sales System", "TARGET">>
    /\ pc' = "loop"
    /\ UNCHANGED <<env, outcome, session, exa_toolset, treeVars, close_calls,
                   log, artifact>>

\* main: a statement between create_exa_toolset() and the try raises
\* (build_agents, Runner(...), or a print of the banner on a stdout that cannot
\* encode it).  The try has not been entered, so the finally block does not
\* run and the exception goes straight to __main__.
SetupRaises ==
    /\ pc = "build"
    /\ outcome' = "error"
    /\ pc' = "unwind"
    /\ UNCHANGED <<env, mainVars, treeVars, close_calls, log, artifact, stdout>>

\* Variant of Finally: the cleanup sits in an else clause of the try, so it
\* runs only when the loop ended without an error or an interrupt.
Finally_Else ==
    /\ pc = "finally"
    /\ IF exa_toolset # None /\ outcome = "return"
       THEN /\ stdout' = Append(stdout, "Closing Exa toolset connection...")
            /\ close_calls' = close_calls + 1
            /\ pc' = "closing"
       ELSE /\ pc' = "unwind"
            /\ UNCHANGED <<stdout, close_calls>>
    /\ UNCHANGED <<env, outcome, mainVars, treeVars, log, artifact>>

\* main, the finally block: close the toolset if one was created.
Finally ==
    /\ pc = "finally"
    /\ IF exa_toolset # None
       THEN /\ stdout' = Append(stdout, "Closing Exa toolset connection...")
            /\ close_calls' = close_calls + 1
            /\ pc' = "closing"
       ELSE /\ pc' = "unwind"
            /\ UNCHANGED <<stdout, close_calls>>
    /\ UNCHANGED <<env, outcome, mainVars, treeVars, log, artifact>>

\* await exa_toolset.close() returns.
CloseReturns ==
    /\ pc = "closing"
    /\ pc' = "unwind"
    /\ UNCHANGED <<env, outcome, mainVars, treeVars, close_calls, log, artifact,
                   stdout>>

\* Variant of CloseRaises: the exception of close() is logged and re-raised.
CloseRaises_Reraise ==
    /\ pc = "closing"
    /\ log' = log \cup {"Error during toolset cleanup"}
    /\ outcome' = "error"
    /\ pc' = "unwind"
    /\ UNCHANGED <<env, mainVars, treeVars, close_calls, artifact, stdout>>

\* await exa_toolset.close() raises an Exception: logged, not re-raised.
CloseRaises ==
    /\ pc = "closing"
    /\ log' = log \cup {"Error during toolset cleanup"}
    /\ pc' = "unwind"
    /\ UNCHANGED <<env, outcome, mainVars, treeVars, close_calls, artifact,
                   stdout>>

\* An interrupt reaches main at one of its awaits: create_session (before the
\* try), the event loop (inside the try, so the finally block runs), or
\* close() (inside the finally block; `except Exception` does not catch it).
Interrupt ==
    /\ pc \in {"create_session", "loop", "closing"}
    /\ outcome' = "interrupt"
    /\ pc' = IF pc = "loop" THEN "finally" ELSE "unwind"
    /\ UNCHANGED <<env, mainVars, treeVars, close_calls, log, artifact, stdout>>

\* Variant of Top: __main__ without the `except Exception` clause's message.
Top_NoErrorMessage ==
    /\ pc = "unwind"
    /\ stdout' = CASE outcome = "interrupt" -> Append(stdout, "Stopped by user.")
                   [] OTHER -> stdout
    /\ pc' = "done"
    /\ UNCHANGED <<env, outcome, mainVars, treeVars, close_calls, log, artifact>>

\* __main__: asyncio.run(main()) has ended; the two except clauses.
Top ==
    /\ pc = "unwind"
    /\ stdout' = CASE outcome = "interrupt" -> Append(stdout, "Stopped by user.")
                   [] outcome = "error" -> Append(stdout, "An error occurred")
                   [] OTHER -> stdout
    /\ pc' = "done"
    /\ UNCHANGED <<env, outcome, mainVars, treeVars, close_calls, log, artifact>>

\* main, the body of `async for event`: what a final response with content
\* from `author` appends to stdout.
EventStdout(out, author, text) ==
    CASE author = "OutreachWriter" ->
             out \o <<"FINAL OUTREACH DRAFT", text, "Saved outreach draft">>
      [] author = "PositioningStrategist" ->
             Append(out, "[DEBUG] Positioning Strategy Generated...")
      [] OTHER -> out

\* Variant of EventArtifact: the file is written without the test of the
\* event's author.
EventArtifact_AnyAuthor(file, author, text) == text

\* main, the body of `async for event`: sales_outreach.md after a final
\* response with content from `author`.
EventArtifact(file, author, text) ==
    IF author = "OutreachWriter" THEN text ELSE file

\* ------------------------------------------- running the tree (spec 4.2)

\* The content a leaf's external call returns on success (opaque; tagged
\* with the leaf so that a value on the blackboard names its writer).
Content(l) == "content of " \o l

\* render: each placeholder replaced by the blackboard's value, an absent key
\* by the absent marker.
render(cs, keys) == [k \in keys |-> Get(cs, k)]

\* A stage may start: the root when the driver runs it; a child of a
\* Sequential Group when the group runs and every earlier sibling has
\* completed; a child of a Parallel Group as soon as the group runs.
CanStart(s) ==
    /\ pc = "loop"
    /\ st[s] = "idle"
    /\ IF s = Root
       THEN root_agent = Root
       ELSE /\ st[Parent(s)] = "running"
            /\ AgentKind(Parent(s)) = "SequentialAgent" =>
                   \A j \in 1..(IndexOf(Parent(s), s) - 1) :
                       st[sub_agents(Parent(s))[j]] = "completed"

\* A stage starts: on_agent_start fires; a leaf renders its instruction and
\* dispatches its external call.
StartStage(s) ==
    /\ CanStart(s)
    /\ st' = [st EXCEPT ![s] = "running"]
    /\ state' = on_agent_start(state, s)
    /\ agent_starts' = [agent_starts EXCEPT ![s] = @ + 1]
    /\ IF s \in Leaves
       THEN /\ instruction' =
                   [instruction EXCEPT ![s] = render(state, InstructionKeys(s))]
            /\ dispatched' = dispatched \cup {s}
       ELSE UNCHANGED <<instruction, dispatched>>
    /\ UNCHANGED <<env, pc, outcome, mainVars, hook_error, tool_calls, tool_log, agent_ends, surfaced, close_calls,
                   log, artifact, stdout>>

\* The external call of a running leaf invokes one of the leaf's tools; the
\* leaf's before_tool_callback, if it has one, fires first.
ToolCall(l, tool) ==
    /\ pc = "loop"
    /\ l \in Leaves
    /\ st[l] = "running"
    /\ tool \in AgentTools(l, exa_toolset)
    /\ <<tool, l>> \notin tool_calls
    /\ tool_log' = IF HasToolCallback(l) THEN on_tool_start(tool_log, tool, l)
                   ELSE tool_log
    /\ tool_calls' = tool_calls \cup {<<tool, l>>}
    /\ UNCHANGED <<env, pc, outcome, mainVars, st, state, agent_starts,
                   agent_ends, instruction, dispatched, surfaced, hook_error,
                   close_calls, log, artifact, stdout>>

\* The blackboard after leaf l's successful call: its content under its
\* declared output key, if it declares one.
SaveOutput(cs, l) ==
    IF output_key(l) # None THEN Put(cs, output_key(l), Content(l)) ELSE cs

\* A leaf's external call succeeds: the content is written, the final
\* response reaches main's loop, on_agent_end fires.
LeafCompleted(l) ==
    /\ pc = "loop"
    /\ l \in Leaves
    /\ st[l] = "running"
    /\ st' = [st EXCEPT ![l] = "completed"]
    /\ state' = on_agent_end(SaveOutput(state, l), l).state
    /\ surfaced' = [surfaced EXCEPT ![l] = on_agent_end(SaveOutput(state, l), l).printed]
    /\ agent_ends' = [agent_ends EXCEPT ![l] = @ + 1]
    /\ stdout' = EventStdout(stdout, l, Content(l))
    /\ artifact' = EventArtifact(artifact, l, Content(l))
    /\ UNCHANGED <<env, pc, outcome, mainVars, hook_error, tool_calls, tool_log, agent_starts, instruction,
                   dispatched, close_calls, log>>

\* A leaf's external call fails: Failed, nothing written; on_agent_end fires.
LeafFailed(l) ==
    /\ pc = "loop"
    /\ l \in Leaves
    /\ st[l] = "running"
    /\ st' = [st EXCEPT ![l] = "failed"]
    /\ state' = on_agent_end(state, l).state
    /\ surfaced' = [surfaced EXCEPT ![l] = on_agent_end(state, l).printed]
    /\ agent_ends' = [agent_ends EXCEPT ![l] = @ + 1]
    /\ UNCHANGED <<env, pc, outcome, mainVars, hook_error, tool_calls, tool_log, agent_starts, instruction,
                   dispatched, close_calls, log, artifact, stdout>>

\* on_agent_end raises at its print of the intermediate output (the hook has
\* no try/except): the leaf's call had succeeded and its content was written,
\* but the exception leaves the hook and, nothing in main.py catching it before
\* __main__, propagates out of `async for` into the finally block.
AgentEndRaises(l) ==
    /\ pc = "loop"
    /\ l \in Leaves
    /\ st[l] = "running"
    /\ l \in DOMAIN output_map
    /\ Get(SaveOutput(state, l), output_map[l]) # None
    /\ st' = [st EXCEPT ![l] = "completed"]
    /\ state' = SaveOutput(state, l)
    /\ agent_ends' = [agent_ends EXCEPT ![l] = @ + 1]
    /\ stdout' = EventStdout(stdout, l, Content(l))
    /\ artifact' = EventArtifact(artifact, l, Content(l))
    /\ hook_error' = l
    /\ outcome' = "error"
    /\ pc' = "finally"
    /\ UNCHANGED <<env, mainVars, agent_starts, instruction, dispatched, surfaced,
                   tool_calls, tool_log, close_calls, log>>

Terminal(s) == st[s] \in {"completed", "failed", "cancelled"}

\* Spec 4.2.3 has a Parallel Group wait for every sibling of a failed child;
\* spec 2 lets the group end "when the group is cancelled" and spec 9 leaves
\* open whether a failure cancels the remaining siblings.  Both policies are
\* admitted: after a child failed, the siblings that are not yet terminal
\* either go on (the actions above) or are cancelled together (this one).
CancelSiblings(g) ==
    /\ pc = "loop"
    /\ g \in Groups
    /\ AgentKind(g) = "ParallelAgent"
    /\ st[g] = "running"
    /\ \E c \in Children(g) : st[c] = "failed"
    /\ \E c \in Children(g) : ~Terminal(c)
    /\ st' = [s \in Stages |->
                 IF s \in Children(g) /\ ~Terminal(s) THEN "cancelled" ELSE st[s]]
    /\ UNCHANGED <<env, pc, outcome, mainVars, hook_error, tool_calls, tool_log, state, agent_starts, agent_ends,
                   instruction, dispatched, surfaced, close_calls, log, artifact,
                   stdout>>

\* A group has failed: a Sequential Group as soon as one child failed, a
\* Parallel Group once every child is terminal and one of them failed.
GroupHasFailed(g) ==
    /\ \E c \in Children(g) : st[c] = "failed"
    /\ AgentKind(g) = "ParallelAgent" => \A c \in Children(g) : Terminal(c)

\* A group returns: Completed when every child completed, Failed as above;
\* on_agent_end fires.
GroupReturns(g) ==
    /\ pc = "loop"
    /\ g \in Groups
    /\ st[g] = "running"
    /\ \/ /\ \A c \in Children(g) : st[c] = "completed"
          /\ st' = [st EXCEPT ![g] = "completed"]
       \/ /\ GroupHasFailed(g)
          /\ st' = [st EXCEPT ![g] = "failed"]
    /\ state' = on_agent_end(state, g).state
    /\ surfaced' = [surfaced EXCEPT ![g] = on_agent_end(state, g).printed]
    /\ agent_ends' = [agent_ends EXCEPT ![g] = @ + 1]
    /\ UNCHANGED <<env, pc, outcome, mainVars, hook_error, tool_calls, tool_log, agent_starts, instruction,
                   dispatched, close_calls, log, artifact, stdout>>

\* main: the event stream ends (the root completed) or the root's failure
\* propagates out of `async for`; either way control enters the finally block.
RunEnds ==
    /\ pc = "loop"
    /\ Terminal(Root)
    /\ outcome' = IF st[Root] = "completed" THEN "return" ELSE "error"
    /\ pc' = "finally"
    /\ UNCHANGED <<env, mainVars, treeVars, close_calls, log, artifact, stdout>>

Next ==
    \/ CheckCredentials
    \/ CreateSession
    \/ CreateTools
    \/ BuildAgents
    \/ SetupRaises
    \/ \E s \in Stages : StartStage(s)
    \/ \E l \in Leaves : LeafCompleted(l)
    \/ \E l \in Leaves : LeafFailed(l)
    \/ \E l \in Leaves : AgentEndRaises(l)
    \/ \E g \in Groups : GroupReturns(g)
    \/ \E g \in Groups : CancelSiblings(g)
    \/ RunEnds
    \/ Interrupt
    \/ Finally
    \/ CloseReturns
    \/ CloseRaises
    \/ Top

Spec == Init /\ [][Next]_vars

\* A tool invocation changes nothing but tool_calls and tool_log, so Spec
\* leaves it out; SpecTools is Spec with the tool invocations of the leaves.
NextTools ==
    \/ Next
    \/ \E l \in Leaves : \E tool \in AgentTools(l, exa_toolset) : ToolCall(l, tool)

SpecTools == Init /\ [][NextTools]_vars

\* ---------------------------------------------------------------- claims

CredentialAbsent == ~env.GOOGLE_API_KEY /\ ~env.GOOGLE_GENAI_USE_VERTEXAI

MainLeft == pc \in {"unwind", "done"}

\* The leaf that declares output key k.
WriterOf(k) == CHOOSE l \in Leaves : output_key(l) = k

\* C1: in a Sequential Group a failed child stops the group: no later sibling
\* is ever started (no hook, no external call) and the group never completes.
\* For the root this means: once ParallelResearchTeam has failed neither
\* PositioningStrategist nor OutreachWriter is invoked, and once
\* PositioningStrategist has failed OutreachWriter is not invoked.
NeverInvoked(s) ==
    /\ st[s] = "idle"
    /\ agent_starts[s] = 0
    /\ s \notin dispatched

C1_SequentialFailFast ==
    /\ \A g \in Groups :
         AgentKind(g) = "SequentialAgent" =>
           \A i, j \in 1..Len(sub_agents(g)) :
             (i < j /\ st[sub_agents(g)[i]] = "failed") =>
               /\ NeverInvoked(sub_agents(g)[j])
               /\ st[g] \in {"running", "failed"}
    /\ st["ParallelResearchTeam"] = "failed" =>
         /\ NeverInvoked("PositioningStrategist")
         /\ NeverInvoked("OutreachWriter")
         /\ st[Root] \in {"running", "failed"}
    /\ st["PositioningStrategist"] = "failed" =>
         /\ NeverInvoked("OutreachWriter")
         /\ st[Root] \in {"running", "failed"}

\* A finished run in which PositioningStrategist failed and the root with it.
C1_Witness ==
    /\ pc = "done"
    /\ st["PositioningStrategist"] = "failed"
    /\ st[Root] = "failed"
    /\ st["OutreachWriter"] = "idle"

\* C3: close() is never called twice, and when main has left on one of the
\* three paths (the root completed, a leaf's failure propagated out of the
\* loop, an interrupt arrived while a stage was running) with a toolset
\* created, close() has been called exactly once.
PathNormal == outcome = "return" /\ st[Root] = "completed"
PathFailure == outcome = "error" /\ \E l \in Leaves : st[l] = "failed"
PathInterrupt == outcome = "interrupt" /\ \E s \in Stages : st[s] = "running"

C3_CloseExactlyOnce ==
    /\ close_calls <= 1
    /\ (MainLeft /\ exa_toolset # None
        /\ (PathNormal \/ PathFailure \/ PathInterrupt)) => close_calls = 1

\* main has left after an interrupt that arrived while a leaf was running, and
\* the toolset was closed once.
C3_Witness ==
    /\ pc = "done"
    /\ exa_toolset # None
    /\ PathInterrupt
    /\ \E l \in Leaves : st[l] = "running"
    /\ close_calls = 1

\* C4: when a child of a Parallel Group has failed and a sibling has
\* completed, the sibling's output key holds the sibling's value from then on,
\* and the group, once it has returned, has returned Failed.
C4_SiblingWriteKept ==
    \A g \in Groups :
      AgentKind(g) = "ParallelAgent" =>
        \A a, b \in Children(g) :
          (a # b /\ st[a] = "failed" /\ st[b] = "completed") =>
            /\ output_key(b) # None => Get(state, output_key(b)) = Content(b)
            /\ Terminal(g) => st[g] = "failed"

\* The group has returned Failed with one child failed and a sibling's value
\* on the blackboard.
C4_Witness ==
    /\ st["ParallelResearchTeam"] = "failed"
    /\ st["NewsResearcher"] = "failed"
    /\ st["CompetitorResearcher"] = "completed"
    /\ Get(state, "competitor_data") = Content("CompetitorResearcher")
    /\ pc = "done"

\* C5: without EXA_API_KEY no toolset exists, LeadResearcher is built with
\* the fallback tool (google_search), and close() is never called; the run
\* can still complete every stage (the witness).
C5_NoCredentialFallback ==
    ~env.EXA_API_KEY =>
      /\ exa_toolset = None
      /\ close_calls = 0
      /\ root_agent # None => lead_tools = {"google_search"}

\* A run without EXA_API_KEY that completed every stage and wrote the artifact.
C5_Witness ==
    /\ ~env.EXA_API_KEY
    /\ pc = "done"
    /\ outcome = "return"
    /\ \A s \in Stages : st[s] = "completed"
    /\ lead_tools = {"google_search"}
    /\ artifact # None
    /\ close_calls = 0

\* C6: without the primary model credential nothing of the run happens: no
\* session, no toolset, no tree, no hook, no external call, an empty
\* blackboard, no artifact, no close; main prints the error and returns.
C6_AbortBeforeStart ==
    CredentialAbsent =>
      /\ ~session
      /\ exa_toolset = None
      /\ root_agent = None
      /\ \A s \in Stages :
           st[s] = "idle" /\ agent_starts[s] = 0 /\ agent_ends[s] = 0
      /\ dispatched = {}
      /\ state = EmptyDict
      /\ artifact = None
      /\ close_calls = 0
      /\ pc # "check" =>
           /\ MainLeft
           /\ outcome = "return"
           /\ stdout = <<"Error: GOOGLE_API_KEY not found.">>

\* The aborted run has ended.
C6_Witness ==
    /\ CredentialAbsent
    /\ pc = "done"
    /\ stdout = <<"Error: GOOGLE_API_KEY not found.">>

\* C7: a leaf that has started finds every key its instruction references
\* written by a completed stage, and rendered that stage's value; no child of
\* a Parallel Group references a key declared by a sibling.
C7_InputsReadyBeforeStart ==
    /\ \A l \in Leaves :
         st[l] # "idle" =>
           \A k \in InstructionKeys(l) :
             /\ k \in OutputKeys
             /\ st[WriterOf(k)] = "completed"
             /\ Get(state, k) = Content(WriterOf(k))
             /\ l \in dispatched => Get(instruction[l], k) = Content(WriterOf(k))
    /\ \A g \in Groups :
         AgentKind(g) = "ParallelAgent" =>
           \A a, b \in Children(g) :
             a # b => output_key(b) \notin InstructionKeys(a)

\* OutreachWriter has started with both of its inputs rendered.
C7_Witness ==
    /\ st["OutreachWriter"] = "running"
    /\ "OutreachWriter" \in dispatched
    /\ Get(instruction["OutreachWriter"], "positioning_strategy") =
           Content("PositioningStrategist")

\* C10: the step in which a leaf's external call fails leaves the leaf's
\* declared output key as it was, absent or present with the same value, and a
\* failed leaf's key is never found written afterwards.
C10_FailedLeafWritesNothing ==
    [][\A l \in Leaves :
         (st[l] = "running" /\ st'[l] = "failed" /\ output_key(l) # None) =>
           /\ (output_key(l) \in DOMAIN state') = (output_key(l) \in DOMAIN state)
           /\ Get(state', output_key(l)) = Get(state, output_key(l))]_vars

\* A leaf has failed and its output key is not on the blackboard.
C10_Witness ==
    \E l \in Leaves :
      /\ st[l] = "failed"
      /\ output_key(l) # None
      /\ output_key(l) \notin DOMAIN state

\* C11: a failure raised inside a hook is swallowed: a run in which a hook
\* raised, no external call failed and no interrupt arrived still runs every
\* stage to completion and main returns normally.
C11_HookFailureSwallowed ==
    (/\ pc = "done"
     /\ hook_error # None
     /\ \A l \in Leaves : st[l] # "failed"
     /\ outcome # "interrupt") =>
        /\ outcome = "return"
        /\ \A s \in Stages : st[s] = "completed"

CleanupFailed == "Error during toolset cleanup" \in log

LastMessage == IF stdout = <<>> THEN None ELSE stdout[Len(stdout)]

\* C12: the step in which close() raises logs the failure and leaves the way
\* main is leaving as it was; when such a run has ended, a completed tree has
\* returned normally without an error message, a failed tree has ended with
\* the error message (or the interrupt's), an interrupted run with the
\* interrupt's.
C12_CloseFailureNotReraised ==
    /\ [][(pc = "closing" /\ ~CleanupFailed /\ CleanupFailed') =>
            (outcome' = outcome /\ stdout' = stdout /\ pc' = "unwind")]_vars
    /\ []((pc = "done" /\ CleanupFailed) =>
            /\ outcome = "return" =>
                 /\ st[Root] = "completed"
                 /\ LastMessage = "Closing Exa toolset connection..."
            /\ outcome = "error" => LastMessage = "An error occurred"
            /\ outcome = "interrupt" => LastMessage = "Stopped by user."
            /\ st[Root] = "failed" => outcome \in {"error", "interrupt"})

\* close() raised in a run whose tree had completed, and main returned normally.
C12_Witness ==
    /\ pc = "done"
    /\ CleanupFailed
    /\ st[Root] = "completed"
    /\ outcome = "return"

\* C19: when main has ended, a toolset it created has been closed, whatever
\* the exit path after its creation.
C19_EveryConnectionClosed ==
    (pc = "done" /\ exa_toolset # None) => close_calls = 1

StageFailed == \E s \in Stages : st[s] = "failed"

C14_RecordRemoved ==
    \A s \in Stages :
      agent_ends[s] > 0 => start_time_key(InvocationId, s) \notin DOMAIN state

\* C14 as amended: on_agent_start stores the start time under the stage's key
\* and on_agent_end only reads it: from the stage's start on, also after its
\* on_agent_end and at the end of the run, the record is in the shared state.
C14_RecordKept ==
    \A s \in Stages :
      /\ agent_starts[s] > 0 =>
           Get(state, start_time_key(InvocationId, s)) = Time
      /\ agent_ends[s] > 0 => agent_starts[s] > 0

\* The run has ended and the root's record is still there after its
\* on_agent_end.
C14_Witness ==
    /\ pc = "done"
    /\ agent_ends[Root] = 1
    /\ start_time_key(InvocationId, Root) \in DOMAIN state

\* The hooks bracket the stages and the tool invocations: on_agent_start has
\* fired once for a stage that is or was running (before its external call and
\* after its parent's), never for an idle one; on_agent_end has fired once for
\* a stage that completed or failed, after that of each of its children that
\* was not cancelled, and not otherwise; in a run whose root completed both have fired exactly once
\* for every stage; every tool invocation of a leaf was logged by
\* on_tool_start for that leaf.
HooksBracket ==
    /\ \A s \in Stages :
         /\ agent_starts[s] <= 1
         /\ st[s] = "idle" => agent_starts[s] = 0
         /\ st[s] \in {"running", "completed", "failed"} => agent_starts[s] = 1
         /\ agent_ends[s] = IF st[s] \in {"completed", "failed"} THEN 1 ELSE 0
         /\ s \in dispatched => agent_starts[s] = 1
    /\ \A g \in Groups : \A c \in Children(g) :
         /\ agent_starts[c] = 1 => agent_starts[g] = 1
         /\ (agent_starts[c] = 1 /\ st[c] # "cancelled") =>
              agent_ends[c] >= agent_ends[g]
         /\ agent_ends[g] = 1 => st[c] # "running"
    /\ st[Root] = "completed" =>
         \A s \in Stages : agent_starts[s] = 1 /\ agent_ends[s] = 1
    /\ tool_calls \subseteq tool_log
    /\ \A c \in tool_calls : agent_starts[c[2]] = 1

C16_SurfacedIsOwnOutput ==
    /\ DOMAIN output_map = {l \in Leaves : output_key(l) # None}
    /\ \A l \in DOMAIN output_map : output_map[l] = output_key(l)
    /\ \A s \in Stages :
         /\ surfaced[s] # None =>
              /\ s \in DOMAIN output_map
              /\ st[s] = "completed"
              /\ surfaced[s] = Content(s)
              /\ surfaced[s] = Get(state, output_key(s))
         /\ (s \in DOMAIN output_map /\ st[s] = "completed" /\ hook_error # s) =>
              surfaced[s] = Content(s)

\* CompetitorResearcher completed and its own output was printed.
C16_Witness ==
    /\ st["CompetitorResearcher"] = "completed"
    /\ agent_ends["CompetitorResearcher"] = 1
    /\ surfaced["CompetitorResearcher"] = Content("CompetitorResearcher")

Printed(msg) == \E i \in 1..Len(stdout) : stdout[i] = msg

\* C18: sales_outreach.md, once written, holds OutreachWriter's content, and
\* then ParallelResearchTeam, PositioningStrategist and OutreachWriter have
\* completed and no stage has failed or been cancelled; the draft is printed
\* exactly when the file is written and the strategy line only after
\* PositioningStrategist completed; the step in which a research leaf ends
\* prints nothing from main and leaves the file alone.
C18_DriverReactsToTwoLeaves ==
    /\ [](/\ artifact # None =>
               /\ artifact = Content("OutreachWriter")
               /\ st["OutreachWriter"] = "completed"
               /\ st["PositioningStrategist"] = "completed"
               /\ st["ParallelResearchTeam"] = "completed"
               /\ \A s \in Stages : st[s] \notin {"failed", "cancelled"}
          /\ Printed("FINAL OUTREACH DRAFT") <=> artifact # None
          /\ Printed("[DEBUG] Positioning Strategy Generated...") =>
               st["PositioningStrategist"] = "completed")
    /\ [][\A l \in Research :
            (st[l] = "running" /\ st'[l] # "running") =>
               (stdout' = stdout /\ artifact' = artifact)]_vars

\* The run has ended with the artifact written.
C18_Witness ==
    /\ pc = "done"
    /\ artifact = Content("OutreachWriter")
    /\ \A l \in Research : st[l] = "completed"

\* C20: the start-time keys of two different stages differ and none is a
\* leaf's output key; the blackboard holds exactly the start-time keys of the
\* stages whose on_agent_start has fired, together with output keys; and each
\* output key present holds the content of the leaf that declares it, so no
\* hook write has replaced or shadowed a leaf's output.
C20_HookKeysDoNotInterfere ==
    /\ \A s \in Stages : \A t \in Stages :
         s # t => start_time_key(InvocationId, s) # start_time_key(InvocationId, t)
    /\ \A s \in Stages : start_time_key(InvocationId, s) \notin OutputKeys
    /\ \A s \in Stages :
         start_time_key(InvocationId, s) \in DOMAIN state <=> agent_starts[s] > 0
    /\ DOMAIN state \subseteq
         OutputKeys \cup {start_time_key(InvocationId, s) : s \in Stages}
    /\ \A k \in OutputKeys :
         k \in DOMAIN state => state[k] = Content(WriterOf(k))
    /\ \A s \in Stages :
         start_time_key(InvocationId, s) \in DOMAIN state =>
            state[start_time_key(InvocationId, s)] = Time

\* Two research leaves have started inside the same invocation, one has
\* written its output and ended while the other is still running.
C20_Witness ==
    /\ st["NewsResearcher"] = "completed"
    /\ agent_ends["NewsResearcher"] = 1
    /\ st["CompetitorResearcher"] = "running"
    /\ start_time_key(InvocationId, "NewsResearcher") \in DOMAIN state
    /\ start_time_key(InvocationId, "CompetitorResearcher") \in DOMAIN state
    /\ Get(state, "news_data") = Content("NewsResearcher")

====
